---- MODULE Spec2Model ----
(***************************************************************************)
(* A model of sortrs (src/src/lib.rs): insertion sort, heap sort and the   *)
(* introspective sort built from them, over a slice of elements and a      *)
(* caller-supplied comparator lt.                                          *)
(*                                                                         *)
(* An element is a record [k, id]: k is what the comparator looks at, id   *)
(* is the element's position in the input, so that two elements which      *)
(* compare equal are still two elements.  Positions are the source's       *)
(* 0-based offsets from the start of the slice.                            *)
(***************************************************************************)
EXTENDS Integers, Sequences, FiniteSets, TLC

----------------------------------------------------------------------------
(* Bounds of the inputs.                                                   *)

\* short inputs: every key sequence of length 0..MaxShort over 0..MaxKey
MaxShort == 5
MaxKey == 2
\* long inputs: lengths THRESHOLD+1 .. THRESHOLD+MaxOver of the patterns
\* i |-> (mul * i + sq * i * i) % md, mul in 0..MaxMul, md in 1..MaxMod,
\* and of sorted runs of mul + 1 equal keys
MaxOver == 3
MaxMul == 4
MaxMod == 5

----------------------------------------------------------------------------
(* Program constants.                                                      *)

THRESHOLD == 16

----------------------------------------------------------------------------
(* Elements and comparators.                                               *)

Elem(key, i) == [k |-> key, id |-> i]

\* what a read outside the slice yields when it does not trap
Garbage == Elem(0, -1)

\* The closures handed in as lt.  "lt" is |a, b| a.lt(b), "gt" is the
\* reversed |a, b| b.lt(a); the others are closures a caller may also pass.
Comparators == {"lt", "gt", "never", "always", "le", "ne", "cyc"}

Lt(c, a, b) ==
    CASE c = "lt"     -> a.k < b.k
      [] c = "gt"     -> b.k < a.k
      [] c = "never"  -> FALSE
      [] c = "always" -> TRUE
      [] c = "le"     -> a.k <= b.k
      [] c = "ne"     -> a.k # b.k
      [] c = "cyc"    -> (b.k - a.k) % 3 = 1

\* the keys any input of the model holds
AllKeys == 0 .. 40

IsStrictWeakOrder(c) ==
    LET L(x, y) == Lt(c, Elem(x, 0), Elem(y, 0))
        E(x, y) == ~L(x, y) /\ ~L(y, x)
    IN  /\ \A x \in AllKeys : ~L(x, x)
        /\ \A x, y, z \in AllKeys : L(x, y) /\ L(y, z) => L(x, z)
        /\ \A x, y, z \in AllKeys : E(x, y) /\ E(y, z) => E(x, z)

StrictWeakOrders ==
    UNION {IF IsStrictWeakOrder(c) THEN {c} ELSE {} : c \in Comparators}

----------------------------------------------------------------------------
(* Memory: the slice v and whether any access left it.                     *)

Mem(s, o) == [v |-> s, oob |-> o]

InSlice(m, i) == i >= 0 /\ i < Len(m.v)

\* &*ptr.offset(i)
deref(m, i) == IF InSlice(m, i) THEN m.v[i + 1] ELSE Garbage

\* records the accesses at the offsets S
touch(m, S) == [m EXCEPT !.oob = @ \/ \E i \in S : ~InSlice(m, i)]

\* ptr_swap as a bug: the second write of the swap is lost
ptr_swap_one_write(m, a, b) ==
    IF InSlice(m, a) /\ InSlice(m, b)
    THEN [m EXCEPT !.v = [@ EXCEPT ![a + 1] = m.v[b + 1]]]
    ELSE [m EXCEPT !.oob = TRUE]

\* ptr::swap(ptr.offset(a), ptr.offset(b))
ptr_swap(m, a, b) ==
    IF InSlice(m, a) /\ InSlice(m, b)
    THEN [m EXCEPT !.v = [@ EXCEPT ![a + 1] = m.v[b + 1], ![b + 1] = m.v[a + 1]]]
    ELSE [m EXCEPT !.oob = TRUE]

\* TLC evaluates an operator's arguments when they are first used; a loop
\* written as a recursion tests this of the memory it passes on, so that each
\* iteration is evaluated before the next begins.
Evaluated(m) == m.oob \in BOOLEAN

\* isize division truncates toward zero
TruncDiv(a, b) == IF a >= 0 THEN a \div b ELSE -((-a) \div b)

----------------------------------------------------------------------------
(* Insertion sort.                                                         *)

\* insert_scan as a bug: the guard is j >= 0
RECURSIVE insert_scan_off_by_one(_, _, _, _, _)
insert_scan_off_by_one(m, ptr, i, j, c) ==
    IF j >= 0
    THEN LET m1 == touch(m, {ptr + i, ptr + j - 1})
         IN  IF Lt(c, deref(m, ptr + i), deref(m, ptr + j - 1))
                /\ Evaluated(m1)
             THEN insert_scan_off_by_one(m1, ptr, i, j - 1, c)
             ELSE [m |-> m1, j |-> j]
    ELSE [m |-> m, j |-> j]

\* insert_scan as a bug: the scan goes on while the predecessor is not less
\* than the element, and so moves it past its equals
RECURSIVE insert_scan_not_less(_, _, _, _, _)
insert_scan_not_less(m, ptr, i, j, c) ==
    IF j > 0
    THEN LET m1 == touch(m, {ptr + i, ptr + j - 1})
         IN  IF ~Lt(c, deref(m, ptr + j - 1), deref(m, ptr + i))
                /\ Evaluated(m1)
             THEN insert_scan_not_less(m1, ptr, i, j - 1, c)
             ELSE [m |-> m1, j |-> j]
    ELSE [m |-> m, j |-> j]

\* the backward scan: while j > 0 && lt(&*read_ptr, &*ptr.offset(j - 1))
RECURSIVE insert_scan(_, _, _, _, _)
insert_scan(m, ptr, i, j, c) ==
    IF j > 0
    THEN LET m1 == touch(m, {ptr + i, ptr + j - 1})
         IN  IF Lt(c, deref(m, ptr + i), deref(m, ptr + j - 1))
                /\ Evaluated(m1)
             THEN insert_scan(m1, ptr, i, j - 1, c)
             ELSE [m |-> m1, j |-> j]
    ELSE [m |-> m, j |-> j]

\* tmp = read(i); copy [j, i) to [j + 1, i + 1); write tmp at j
insert_shift(m, ptr, i, j) ==
    LET m1 == touch(m, (ptr + j) .. (ptr + i))
    IN  IF m1.oob THEN m1
        ELSE [m1 EXCEPT !.v =
                 SubSeq(m.v, 1, ptr + j) \o << m.v[ptr + i + 1] >>
                 \o SubSeq(m.v, ptr + j + 1, ptr + i)
                 \o SubSeq(m.v, ptr + i + 2, Len(m.v))]

RECURSIVE insert_from(_, _, _, _, _)
insert_from(m, ptr, len, i, c) ==
    IF i < len
    THEN LET s == insert_scan(m, ptr, i, i, c)
             m2 == IF i # s.j THEN insert_shift(s.m, ptr, i, s.j) ELSE s.m
         IN  IF Evaluated(m2) THEN insert_from(m2, ptr, len, i + 1, c) ELSE m2
    ELSE m

\* insertsort_impl as a bug: the loop runs over 1 ..= len
insertsort_impl_inclusive(m, ptr, len, c) == insert_from(m, ptr, len + 1, 1, c)

insertsort_impl(m, ptr, len, c) == insert_from(m, ptr, len, 1, c)

----------------------------------------------------------------------------
(* Heap sort.                                                              *)

RECURSIVE shift_down(_, _, _, _, _)
shift_down(m, ptr, start, end, c) ==
    LET root == start
        next_root == root * 2
    IN  IF next_root < end
        THEN LET left_child == next_root + 1
                 m1 == touch(m, {ptr + root, ptr + left_child})
                 swap1 == IF Lt(c, deref(m, ptr + root), deref(m, ptr + left_child))
                          THEN left_child ELSE root
                 right_child == left_child + 1
                 m2 == IF right_child <= end
                       THEN touch(m1, {ptr + swap1, ptr + right_child}) ELSE m1
                 swap == IF right_child <= end
                            /\ Lt(c, deref(m, ptr + swap1), deref(m, ptr + right_child))
                         THEN right_child ELSE swap1
                 m3 == ptr_swap(m2, ptr + root, ptr + swap)
             IN  IF swap = root \/ ~Evaluated(m3) THEN m2
                 ELSE shift_down(m3, ptr, swap, end, c)
        ELSE m

RECURSIVE heapify_from(_, _, _, _, _)
heapify_from(m, ptr, start, end, c) ==
    IF start >= 0
    THEN LET m1 == shift_down(m, ptr, start, end, c)
         IN  IF Evaluated(m1) THEN heapify_from(m1, ptr, start - 1, end, c) ELSE m1
    ELSE m

\* heapify as a bug: it starts one below the last parent node
heapify_skips_parent(m, ptr, len, c) ==
    heapify_from(m, ptr, TruncDiv(len - 2, 2) - 1, len - 1, c)

heapify(m, ptr, len, c) == heapify_from(m, ptr, TruncDiv(len - 2, 2), len - 1, c)

\* heapsort_pop as a bug: the loop is while end > 1
RECURSIVE heapsort_pop_stops_early(_, _, _, _)
heapsort_pop_stops_early(m, ptr, end, c) ==
    IF end > 1
    THEN LET m1 == shift_down(ptr_swap(m, ptr + end, ptr), ptr, 0, end - 1, c)
         IN  IF Evaluated(m1) THEN heapsort_pop_stops_early(m1, ptr, end - 1, c) ELSE m1
    ELSE m

RECURSIVE heapsort_pop(_, _, _, _)
heapsort_pop(m, ptr, end, c) ==
    IF end > 0
    THEN LET m1 == shift_down(ptr_swap(m, ptr + end, ptr), ptr, 0, end - 1, c)
         IN  IF Evaluated(m1) THEN heapsort_pop(m1, ptr, end - 1, c) ELSE m1
    ELSE m

heapsort_impl(m, ptr, len, c) == heapsort_pop(heapify(m, ptr, len, c), ptr, len - 1, c)

----------------------------------------------------------------------------
(* Introspection sort: the pure parts.                                     *)

\* size_of::<usize>() * 8 - 1 - n.leading_zeros(), for n >= 1
RECURSIVE lg(_)
lg(n) == IF n <= 1 THEN 0 ELSE 1 + lg(n \div 2)

\* the number of elements between two pointers into the slice (last >= fp)
ptr_distance(lp, fp) == lp - fp

\* median_3 as a bug: the greatest of the three is taken
median_3_greatest(m, a, b, c, cmp) ==
    IF Lt(cmp, deref(m, a), deref(m, b))
    THEN IF Lt(cmp, deref(m, b), deref(m, c)) THEN c ELSE b
    ELSE IF Lt(cmp, deref(m, a), deref(m, c)) THEN c ELSE a

median_3(m, a, b, c, cmp) ==
    IF Lt(cmp, deref(m, a), deref(m, b))
    THEN IF Lt(cmp, deref(m, b), deref(m, c)) THEN b
         ELSE IF Lt(cmp, deref(m, a), deref(m, c)) THEN c
         ELSE a
    ELSE IF Lt(cmp, deref(m, a), deref(m, c)) THEN a
    ELSE IF Lt(cmp, deref(m, b), deref(m, c)) THEN c
    ELSE b

\* while lt(&*first, &*pivot) { first = first.offset(1) }: where the scan
\* stops, or the first offset outside the slice it reads
RECURSIVE scan_first(_, _, _, _)
scan_first(m, fp, pivot, cmp) ==
    IF InSlice(m, fp) /\ Lt(cmp, deref(m, fp), deref(m, pivot))
    THEN scan_first(m, fp + 1, pivot, cmp)
    ELSE fp

\* while lt(&*pivot, &*last) { last = last.offset(-1) }
RECURSIVE scan_last(_, _, _, _)
scan_last(m, lp, pivot, cmp) ==
    IF InSlice(m, lp) /\ Lt(cmp, deref(m, pivot), deref(m, lp))
    THEN scan_last(m, lp - 1, pivot, cmp)
    ELSE lp

\* a frame of introsort_loop: its arguments and locals; pivot is the result
\* of the last partition_pivot.  steps is history: the number of partition
\* steps on the chain of calls and loop iterations that led to where the
\* frame is now.
Frame(ptr, lp, depth_limit) ==
    [ptr |-> ptr, last |-> lp, depth_limit |-> depth_limit,
     len |-> ptr_distance(lp, ptr), pivot |-> ptr, steps |-> 0]

----------------------------------------------------------------------------
(* Inputs.                                                                 *)

MkInput(keys) == [i \in 1 .. Len(keys) |-> Elem(keys[i], i - 1)]

ShortKeys == UNION {[1 .. n -> 0 .. MaxKey] : n \in 0 .. MaxShort}

LongLens == (THRESHOLD + 1) .. (THRESHOLD + MaxOver)

Min(a, b) == IF a < b THEN a ELSE b

\* sawtooth and constant sequences, sorted and reverse-sorted sequences with
\* runs of equal keys, and organ pipes
PatternKeys ==
    {[i \in 1 .. n |-> (mul * (i - 1) + sq * (i - 1) * (i - 1)) % md] :
        n \in LongLens, mul \in 0 .. MaxMul, md \in 1 .. MaxMod, sq \in 0 .. 1}
    \cup {[i \in 1 .. n |-> (i - 1) \div (mul + 1)] : n \in LongLens, mul \in 0 .. MaxMul}
    \cup {[i \in 1 .. n |-> (n - i) \div (mul + 1)] : n \in LongLens, mul \in 0 .. MaxMul}
    \cup {[i \in 1 .. n |-> Min(i - 1, n - i)] : n \in LongLens}

\* an input on which median-of-three partitioning takes two elements off
\* the range at every step, so that the depth limit runs out
Killer ==
    << 21, 1, 19, 3, 35, 5, 33, 7, 31, 9, 29, 11, 27, 13, 25, 15, 23, 17, 0,
       2, 4, 6, 8, 10, 12, 14, 16, 18, 32, 26, 34, 24, 30, 22, 37, 20, 28 >>

KillerKeys ==
    {[i \in 1 .. Len(Killer) |-> Killer[i] \div d] : d \in 1 .. 2}
    \cup {[i \in 1 .. Len(Killer) |-> (37 - Killer[i]) \div d] : d \in 1 .. 2}

\* an input whose first partition step leaves a left part longer than
\* THRESHOLD and a right part on which the depth limit runs out, so that
\* introsort_loop partitions the left part after heap sort has run
Split ==
    << 0, 1, 2, 0, 1, 2, 0, 1, 2, 0, 1, 2, 0, 1, 2, 0, 1, 13, 38, 5, 36, 7,
       34, 9, 32, 11, 30, 3, 28, 15, 26, 17, 24, 19, 35, 21, 4, 6, 8, 10, 12,
       14, 16, 18, 20, 29, 37, 27, 33, 25, 39, 23, 31, 22 >>

SplitKeys ==
    {[i \in 1 .. Len(Split) |-> Split[i]], [i \in 1 .. Len(Split) |-> 39 - Split[i]]}

Inputs == {MkInput(ks) : ks \in ShortKeys \cup PatternKeys \cup KillerKeys \cup SplitKeys}

Functions == {"insertsort_by", "heapsort_by", "introsort_by"}

----------------------------------------------------------------------------
(* State.                                                                  *)

VARIABLES
    v,        \* the slice
    oob,      \* whether an access outside the slice has happened
    input,    \* the slice as it was at the call
    lt,       \* the comparator
    fn,       \* the public function called
    pc,       \* the position of the program
    stack,    \* the frames of introsort_loop, innermost last
    first,    \* partition's first
    last,     \* partition's last
    chosen,   \* the element median_3 chose in the current partition_pivot
    heapsorts, \* how many ranges introsort_loop has handed to heapsort_impl
    heaped    \* history: the offsets of the ranges handed to heapsort_impl

vars == <<v, oob, input, lt, fn, pc, stack, first, last, chosen, heapsorts, heaped>>

Top == stack[Len(stack)]

Init ==
    /\ input \in Inputs
    /\ v = input
    /\ oob = FALSE
    /\ lt \in Comparators
    /\ fn \in Functions
    /\ pc = "call"
    /\ stack = << >>
    /\ first = 0
    /\ last = 0
    /\ chosen = Garbage
    /\ heapsorts = 0
    /\ heaped = {}

----------------------------------------------------------------------------
(* The public functions.                                                   *)

insertsort_by ==
    /\ pc = "call" /\ fn = "insertsort_by"
    /\ LET m == insertsort_impl(Mem(v, oob), 0, Len(v), lt)
       IN  v' = m.v /\ oob' = m.oob
    /\ pc' = "done"
    /\ UNCHANGED <<input, lt, fn, stack, first, last, chosen, heapsorts, heaped>>

heapsort_by ==
    /\ pc = "call" /\ fn = "heapsort_by"
    /\ LET len == Len(v)
           m == IF len > 0 THEN heapsort_impl(Mem(v, oob), 0, len, lt) ELSE Mem(v, oob)
       IN  v' = m.v /\ oob' = m.oob
    /\ pc' = "done"
    /\ UNCHANGED <<input, lt, fn, stack, first, last, chosen, heapsorts, heaped>>

\* introsort_by -> introsort_impl, up to the call of introsort_loop
introsort_impl ==
    /\ pc = "call" /\ fn = "introsort_by"
    /\ LET len == Len(v)
       IN  IF len > 0
           THEN stack' = <<Frame(0, len, 2 * lg(len))>> /\ pc' = "loop"
           ELSE stack' = stack /\ pc' = "done"
    /\ UNCHANGED <<v, oob, input, lt, fn, first, last, chosen, heapsorts, heaped>>

\* introsort_final as a bug: the finishing insertion sort is left out
introsort_final_left_out ==
    /\ pc = "final"
    /\ pc' = "done"
    /\ UNCHANGED <<v, oob, input, lt, fn, stack, first, last, chosen, heapsorts, heaped>>

\* introsort_impl after introsort_loop returned: insertsort mostly sorted data
introsort_final ==
    /\ pc = "final"
    /\ LET m == insertsort_impl(Mem(v, oob), 0, Len(v), lt)
       IN  v' = m.v /\ oob' = m.oob
    /\ pc' = "done"
    /\ UNCHANGED <<input, lt, fn, stack, first, last, chosen, heapsorts, heaped>>

----------------------------------------------------------------------------
(* introsort_loop.                                                         *)

\* the innermost introsort_loop returns: to introsort_impl, or to the
\* caller's `len = ptr_distance(pivot, ptr); last = pivot;`
ReturnFrom(stk) ==
    LET rest == SubSeq(stk, 1, Len(stk) - 1)
    IN  IF rest = << >>
        THEN [stack |-> rest, pc |-> "final"]
        ELSE LET f == rest[Len(rest)]
             IN  [stack |-> [rest EXCEPT ![Len(rest)] =
                                [f EXCEPT !.len = ptr_distance(f.pivot, f.ptr),
                                          !.last = f.pivot]],
                  pc |-> "loop"]

\* loop_exit as a bug: the loop ends at twice THRESHOLD elements
loop_exit_early ==
    /\ pc = "loop" /\ ~(Top.len > 2 * THRESHOLD)
    /\ LET r == ReturnFrom(stack) IN stack' = r.stack /\ pc' = r.pc
    /\ UNCHANGED <<v, oob, input, lt, fn, first, last, chosen, heapsorts, heaped>>

\* while len > THRESHOLD fails: return
loop_exit ==
    /\ pc = "loop" /\ ~(Top.len > THRESHOLD)
    /\ LET r == ReturnFrom(stack) IN stack' = r.stack /\ pc' = r.pc
    /\ UNCHANGED <<v, oob, input, lt, fn, first, last, chosen, heapsorts, heaped>>

\* if depth_limit == 0 { heapsort_impl(ptr, len, lt); return; }
loop_heapsort ==
    /\ pc = "loop" /\ Top.len > THRESHOLD /\ Top.depth_limit = 0
    /\ LET m == heapsort_impl(Mem(v, oob), Top.ptr, Top.len, lt)
       IN  v' = m.v /\ oob' = m.oob
    /\ LET r == ReturnFrom(stack) IN stack' = r.stack /\ pc' = r.pc
    /\ heapsorts' = heapsorts + 1
    /\ heaped' = heaped \cup (Top.ptr .. Top.ptr + Top.len - 1)
    /\ UNCHANGED <<input, lt, fn, first, last, chosen>>

\* partition_pivot as a bug: the median is taken of the first, the middle
\* and the last element of the range
partition_pivot_from_first ==
    /\ pc = "loop" /\ Top.len > THRESHOLD /\ Top.depth_limit > 0
    /\ LET ptr == Top.ptr
           len == Top.len
           a == ptr
           b == ptr + len \div 2
           c == ptr + len - 1
           m0 == touch(Mem(v, oob), {a, b, c})
           pivot == median_3(m0, a, b, c, lt)
           m == ptr_swap(m0, ptr, pivot)
       IN  /\ v' = m.v /\ oob' = m.oob
           /\ chosen' = deref(m0, pivot)
           /\ first' = ptr + 1
           /\ last' = ptr + len
    /\ stack' = [stack EXCEPT ![Len(stack)].depth_limit = @ - 1,
                               ![Len(stack)].steps = @ + 1]
    /\ pc' = "scan_first"
    /\ UNCHANGED <<input, lt, fn, heapsorts, heaped>>

\* partition_pivot as a bug: depth_limit is not decremented
partition_pivot_no_decrement ==
    /\ pc = "loop" /\ Top.len > THRESHOLD /\ Top.depth_limit > 0
    /\ LET ptr == Top.ptr
           len == Top.len
           a == ptr + 1
           b == ptr + len \div 2
           c == ptr + len - 1
           m0 == touch(Mem(v, oob), {a, b, c})
           pivot == median_3(m0, a, b, c, lt)
           m == ptr_swap(m0, ptr, pivot)
       IN  /\ v' = m.v /\ oob' = m.oob
           /\ chosen' = deref(m0, pivot)
           /\ first' = ptr + 1
           /\ last' = ptr + len
    /\ stack' = [stack EXCEPT ![Len(stack)].steps = @ + 1]
    /\ pc' = "scan_first"
    /\ UNCHANGED <<input, lt, fn, heapsorts, heaped>>

\* depth_limit -= 1; partition_pivot up to the call of partition
partition_pivot ==
    /\ pc = "loop" /\ Top.len > THRESHOLD /\ Top.depth_limit > 0
    /\ LET ptr == Top.ptr
           len == Top.len
           a == ptr + 1
           b == ptr + len \div 2
           c == ptr + len - 1
           m0 == touch(Mem(v, oob), {a, b, c})
           pivot == median_3(m0, a, b, c, lt)
           m == ptr_swap(m0, ptr, pivot)
       IN  /\ v' = m.v /\ oob' = m.oob
           /\ chosen' = deref(m0, pivot)
           /\ first' = ptr + 1
           /\ last' = ptr + len
    /\ stack' = [stack EXCEPT ![Len(stack)].depth_limit = @ - 1,
                               ![Len(stack)].steps = @ + 1]
    /\ pc' = "scan_first"
    /\ UNCHANGED <<input, lt, fn, heapsorts, heaped>>

\* What a read outside the slice can do: trap; yield a value for which the
\* comparator answers false, so that the scan stops there; or yield one for
\* which it answers true, so that the pointer walks on outside the slice.
StrayRead(stop) ==
    /\ oob' = TRUE
    /\ \/ pc' = "crashed" /\ UNCHANGED <<first, last>>
       \/ stop
       \/ pc' = "astray" /\ UNCHANGED <<first, last>>

\* partition: find first element greater than the pivot
partition_scan_first ==
    /\ pc = "scan_first"
    /\ LET m == Mem(v, oob)
           r == scan_first(m, first, Top.ptr, lt)
       IN  IF InSlice(m, r)
           THEN first' = r /\ pc' = "scan_last" /\ UNCHANGED <<oob, last>>
           ELSE StrayRead(first' = r /\ pc' = "scan_last" /\ UNCHANGED last)
    /\ UNCHANGED <<v, input, lt, fn, stack, chosen, heapsorts, heaped>>

\* partition_scan_last as a bug: last is not moved back before the scan
partition_scan_last_no_step ==
    /\ pc = "scan_last"
    /\ LET m == Mem(v, oob)
           r == scan_last(m, last, Top.ptr, lt)
       IN  IF InSlice(m, r)
           THEN last' = r /\ pc' = "check" /\ UNCHANGED <<oob, first>>
           ELSE StrayRead(last' = r /\ pc' = "check" /\ UNCHANGED first)
    /\ UNCHANGED <<v, input, lt, fn, stack, chosen, heapsorts, heaped>>

\* partition: last = last.offset(-1); find last element smaller than the pivot
partition_scan_last ==
    /\ pc = "scan_last"
    /\ LET m == Mem(v, oob)
           r == scan_last(m, last - 1, Top.ptr, lt)
       IN  IF InSlice(m, r)
           THEN last' = r /\ pc' = "check" /\ UNCHANGED <<oob, first>>
           ELSE StrayRead(last' = r /\ pc' = "check" /\ UNCHANGED first)
    /\ UNCHANGED <<v, input, lt, fn, stack, chosen, heapsorts, heaped>>

\* partition: first and last have met, return first to introsort_loop
partition_return ==
    /\ pc = "check" /\ ~(first < last)
    /\ stack' = [stack EXCEPT ![Len(stack)].pivot = first]
    /\ pc' = "partitioned"
    /\ UNCHANGED <<v, oob, input, lt, fn, first, last, chosen, heapsorts, heaped>>

\* partition_swap as a bug: first moves on and nothing is swapped
partition_swap_left_out ==
    /\ pc = "check" /\ first < last
    /\ first' = first + 1
    /\ pc' = "scan_first"
    /\ UNCHANGED <<v, oob, input, lt, fn, stack, last, chosen, heapsorts, heaped>>

\* partition: swap the first and last elements, move to the next element
partition_swap ==
    /\ pc = "check" /\ first < last
    /\ LET m == ptr_swap(Mem(v, oob), first, last)
       IN  v' = m.v /\ oob' = m.oob
    /\ first' = first + 1
    /\ pc' = "scan_first"
    /\ UNCHANGED <<input, lt, fn, stack, last, chosen, heapsorts, heaped>>

\* loop_recurse as a bug: the recursive call is given the left part
loop_recurse_left ==
    /\ pc = "partitioned" /\ Top.pivot <= Top.last
    /\ stack' = Append(stack, [Frame(Top.ptr, Top.pivot, Top.depth_limit)
                                  EXCEPT !.steps = Top.steps])
    /\ pc' = "loop"
    /\ UNCHANGED <<v, oob, input, lt, fn, first, last, chosen, heapsorts, heaped>>

\* introsort_loop(pivot, last, depth_limit, lt)
loop_recurse ==
    /\ pc = "partitioned" /\ Top.pivot <= Top.last
    /\ stack' = Append(stack, [Frame(Top.pivot, Top.last, Top.depth_limit)
                                  EXCEPT !.steps = Top.steps])
    /\ pc' = "loop"
    /\ UNCHANGED <<v, oob, input, lt, fn, first, last, chosen, heapsorts, heaped>>

\* introsort_loop(pivot, last, ...) with pivot beyond last: the usize
\* subtraction in ptr_distance wraps.  With one-byte elements the cast to
\* isize gives the negative difference and the call returns at once; with
\* larger elements len is huge and the next access is far outside the
\* slice; a build with overflow checks panics.
loop_recurse_wrapped ==
    /\ pc = "partitioned" /\ Top.pivot > Top.last
    /\ \/ /\ stack' = Append(stack, [Frame(Top.pivot, Top.last, Top.depth_limit)
                                        EXCEPT !.steps = Top.steps])
          /\ pc' = "loop"
          /\ UNCHANGED oob
       \/ /\ pc' = "crashed"
          /\ UNCHANGED <<stack, oob>>
       \/ /\ pc' = "astray"
          /\ oob' = TRUE
          /\ UNCHANGED stack
    /\ UNCHANGED <<v, input, lt, fn, first, last, chosen, heapsorts, heaped>>

Next ==
    \/ insertsort_by
    \/ heapsort_by
    \/ introsort_impl
    \/ introsort_final
    \/ loop_exit
    \/ loop_heapsort
    \/ partition_pivot
    \/ partition_scan_first
    \/ partition_scan_last
    \/ partition_return
    \/ partition_swap
    \/ loop_recurse
    \/ loop_recurse_wrapped

Spec == Init /\ [][Next]_vars

----------------------------------------------------------------------------
(* What the claims speak of.                                               *)

Returned == pc = "done"

\* lt(s[i+1], s[i]) is false for every adjacent pair
Sorted(s, c) == \A i \in 1 .. Len(s) - 1 : ~Lt(c, s[i + 1], s[i])

Equivalent(c, a, b) == ~Lt(c, a, b) /\ ~Lt(c, b, a)

Range(s) == {s[i] : i \in 1 .. Len(s)}

Count(e, s) == Cardinality({i \in 1 .. Len(s) : s[i] = e})

SameMultiset(s, t) ==
    /\ Len(s) = Len(t)
    /\ \A e \in Range(s) \cup Range(t) : Count(e, s) = Count(e, t)

\* elements that compare equal stand in the order of their input positions
Stable(s, c) ==
    \A p, q \in 1 .. Len(s) :
        p < q /\ Equivalent(c, s[p], s[q]) => s[p].id < s[q].id

\* some two elements of s compare equal
HasEquals(s, c) == \E p, q \in 1 .. Len(s) : p < q /\ Equivalent(c, s[p], s[q])

----------------------------------------------------------------------------
(* The claims.                                                             *)

\* C1: when introsort_by returns under a strict weak order, no element is
\* less than its predecessor; under the natural order the keys are
\* nondecreasing and under the reversed comparator nonincreasing.
C1_IntrosortOrdered ==
    Returned /\ fn = "introsort_by" /\ lt \in StrictWeakOrders =>
        /\ Sorted(v, lt)
        /\ lt = "lt" => \A i \in 1 .. Len(v) - 1 : v[i].k <= v[i + 1].k
        /\ lt = "gt" => \A i \in 1 .. Len(v) - 1 : v[i].k >= v[i + 1].k

\* introsort_by has returned, under the reversed comparator, from an input
\* longer than THRESHOLD on which it both partitioned and fell back to heap sort
C1_Witness ==
    /\ Returned /\ fn = "introsort_by" /\ lt = "gt"
    /\ Len(input) > THRESHOLD /\ heapsorts > 0 /\ v # input

\* C2: under a strict weak order, the elements of the slice after
\* insertsort_by, heapsort_by or introsort_by are, as a multiset, those of
\* the input.
C2_Permutation ==
    Returned /\ lt \in StrictWeakOrders => SameMultiset(v, input)

\* introsort_by has returned from an input with equal keys that it
\* partitioned, heap-sorted in part and reordered
C2_Witness ==
    /\ Returned /\ fn = "introsort_by" /\ lt = "lt"
    /\ heapsorts > 0 /\ HasEquals(input, lt) /\ v # input

\* C3: when heapsort_by or insertsort_by returns under a strict weak order,
\* no element is less than its predecessor; under the reversed comparator
\* the keys are nonincreasing.
C3_HeapAndInsertOrdered ==
    Returned /\ fn \in {"heapsort_by", "insertsort_by"} /\ lt \in StrictWeakOrders =>
        /\ Sorted(v, lt)
        /\ lt = "gt" => \A i \in 1 .. Len(v) - 1 : v[i].k >= v[i + 1].k

\* heapsort_by has returned, under the reversed comparator, from an input
\* longer than THRESHOLD that it reordered
C3_Witness ==
    /\ Returned /\ fn = "heapsort_by" /\ lt = "gt"
    /\ Len(input) > THRESHOLD /\ v # input

\* C4: on the empty slice and on a one-element slice each of the three
\* functions goes on to return, accesses nothing outside the slice and
\* leaves the slice as it was, whatever the comparator.
C4_EmptyAndSingle ==
    Len(input) <= 1 =>
        /\ v = input
        /\ ~oob
        /\ pc \in {"call", "loop", "final", "done"}
        /\ ~Returned => ENABLED Next

\* introsort_by has returned from a one-element slice
C4_Witness == Returned /\ fn = "introsort_by" /\ Len(input) = 1

\* C5: whatever the comparator, introsort_by reads and writes nothing
\* outside the slice and does not crash.
C5_IntrosortInBounds ==
    fn = "introsort_by" => ~oob /\ pc \notin {"crashed", "astray"}

\* C6: whatever the comparator, insertsort_by and heapsort_by do nothing
\* but return (each call is one step, from "call" to "done", whose loops
\* have run to their end), access only offsets in [0, len), and leave a
\* permutation of the input.
C6_InsertAndHeapSafe ==
    fn \in {"insertsort_by", "heapsort_by"} =>
        /\ ~oob
        /\ pc \in {"call", "done"}
        /\ Returned => SameMultiset(v, input)

\* heapsort_by has returned under a comparator that is no strict weak
\* order, having reordered the slice into an order that is not sorted
C6_Witness ==
    /\ Returned /\ fn = "heapsort_by" /\ lt \notin StrictWeakOrders
    /\ v # input /\ ~Sorted(v, lt)

\* C7, as claimed: each of the three functions leaves a slice that was
\* already sorted under the comparator unchanged, position by position.
C7_SortedUnchanged ==
    Returned /\ lt \in StrictWeakOrders /\ Sorted(input, lt) => v = input

\* C7, amended: after any of the three functions has returned from a sorted
\* input, every position holds an element that compares equal to the one it
\* held; the slice is unchanged position by position after insertsort_by,
\* and after the other two when no two elements of the input compare equal.
C7_SortedKept ==
    Returned /\ lt \in StrictWeakOrders /\ Sorted(input, lt) =>
        /\ Len(v) = Len(input)
        /\ \A i \in 1 .. Len(v) : Equivalent(lt, v[i], input[i])
        /\ fn = "insertsort_by" => v = input
        /\ ~HasEquals(input, lt) => v = input

\* introsort_by has returned from a sorted input longer than THRESHOLD
\* and has reordered elements that compare equal
C7_Witness ==
    /\ Returned /\ fn = "introsort_by" /\ lt \in StrictWeakOrders
    /\ Len(input) > THRESHOLD /\ Sorted(input, lt) /\ v # input

\* C8: insertsort_by is stable: under a strict weak order, elements that
\* compare equal stand in the output in the order they had in the input.
C8_InsertsortStable ==
    Returned /\ fn = "insertsort_by" /\ lt \in StrictWeakOrders => Stable(v, lt)

\* insertsort_by has returned from an input with equal keys that it reordered
C8_Witness ==
    /\ Returned /\ fn = "insertsort_by" /\ lt \in StrictWeakOrders
    /\ HasEquals(input, lt) /\ v # input

\* C9: introsort_by is stable: under a strict weak order, elements that
\* compare equal stand in the output in the order they had in the input.
C9_IntrosortStable ==
    Returned /\ fn = "introsort_by" /\ lt \in StrictWeakOrders => Stable(v, lt)

\* C10: under a strict weak order, when partition_pivot has returned b for
\* the range [ptr, last), the chosen pivot is at ptr, ptr < b <= last, no
\* element of [ptr, b) is greater than the pivot, none of [b, last) is less
\* than it, and no element of [b, last) is less than one of [ptr, b).
C10_Partitioned ==
    pc = "partitioned" /\ lt \in StrictWeakOrders =>
        LET ptr == Top.ptr
            b == Top.pivot
            left == {deref(Mem(v, oob), x) : x \in ptr .. b - 1}
            right == {deref(Mem(v, oob), x) : x \in b .. Top.last - 1}
        IN  /\ Top.last - ptr > THRESHOLD
            /\ ptr < b /\ b <= Top.last
            /\ deref(Mem(v, oob), ptr) = chosen
            /\ \A x \in left : ~Lt(lt, chosen, x)
            /\ \A y \in right : ~Lt(lt, y, chosen)
            /\ \A x \in left, y \in right : ~Lt(lt, y, x)

\* partition_pivot has returned for a range inside the slice, reached by a
\* recursive call, after at least one swap of partition
C10_Witness ==
    /\ pc = "partitioned" /\ lt \in StrictWeakOrders
    /\ Len(stack) >= 2 /\ Top.ptr > 0
    /\ Top.pivot > Top.ptr + 1 /\ Top.pivot < Top.last - 1

\* C11: under a strict weak order, in every partition step of introsort_by,
\* at the top level and in every sub-range, the two scans of partition
\* dereference only offsets of the current range [ptr, ptr + len).  A scan
\* reads consecutive offsets, so it is enough that it starts and stops in
\* the range: the left scan starts at first and stops at an element that is
\* not less than the pivot, the right scan starts at last - 1 and stops at
\* an element the pivot is not less than, at worst at the pivot at ptr.
C11_ScansInRange ==
    fn = "introsort_by" /\ lt \in StrictWeakOrders =>
        LET m == Mem(v, oob)
            InRange(x) == Top.ptr <= x /\ x < Top.ptr + Top.len
        IN  /\ ~oob /\ pc \notin {"crashed", "astray"}
            /\ pc \in {"scan_first", "scan_last", "check"} =>
                   /\ 0 <= Top.ptr /\ Top.ptr + Top.len <= Len(v)
                   /\ Top.ptr < first /\ InRange(first)
            /\ pc \in {"scan_last", "check"} =>
                   ~Lt(lt, deref(m, first), deref(m, Top.ptr))
            /\ pc = "scan_last" => InRange(last - 1)
            /\ pc = "check" =>
                   /\ InRange(last)
                   /\ ~Lt(lt, deref(m, Top.ptr), deref(m, last))

\* both scans of a partition step have moved and stopped, in a sub-range
\* that a recursive call was given and that ends before the end of the slice
C11_Witness ==
    /\ pc = "check" /\ fn = "introsort_by" /\ lt \in StrictWeakOrders
    /\ Len(stack) >= 2 /\ Top.ptr > 0 /\ Top.ptr + Top.len < Len(v)
    /\ first > Top.ptr + 1 /\ last < Top.ptr + Top.len - 1

\* 2 * lg(len as usize), the depth budget of a call of introsort_by
DepthBudget == 2 * lg(Len(input))

\* what C12 says of every state
C12_State ==
    fn = "introsort_by" =>
        \* the budget is what is left of 2 * floor(log2(n)) after the
        \* partition steps of the chain, and no chain is longer than that
        /\ \A i \in 1 .. Len(stack) :
               /\ stack[i].depth_limit >= 0
               /\ stack[i].steps <= DepthBudget
               /\ stack[i].depth_limit = DepthBudget - stack[i].steps
        \* under a strict weak order, no range handed to heap sort is
        \* partitioned again
        /\ lt \in StrictWeakOrders
           /\ pc \in {"scan_first", "scan_last", "check", "partitioned"} =>
               (Top.ptr .. Top.ptr + Top.len - 1) \cap heaped = {}

\* what C12 says of every step
C12_Step ==
    fn = "introsort_by" =>
        \* the budget starts at 2 * floor(log2(n))
        /\ pc = "call" /\ pc' = "loop" =>
               Len(input) >= 1 /\ Top'.depth_limit = DepthBudget
        \* a partition step runs with a budget above 0 and takes exactly one
        /\ pc = "loop" /\ pc' = "scan_first" =>
               Top.depth_limit > 0 /\ Top'.depth_limit = Top.depth_limit - 1
        \* the recursive call receives the decremented value
        /\ Len(stack) >= 1 /\ Len(stack') = Len(stack) + 1 =>
               /\ pc = "partitioned"
               /\ Top'.depth_limit = Top.depth_limit
        \* the budget of a running invocation never increases
        /\ \A i \in 1 .. Len(stack) :
               i <= Len(stack') => stack'[i].depth_limit <= stack[i].depth_limit
        \* a range longer than THRESHOLD met with budget 0 goes whole to heap
        \* sort, and the invocation returns
        /\ pc = "loop" /\ Top.len > THRESHOLD /\ Top.depth_limit = 0 =>
               /\ heapsorts' = heapsorts + 1
               /\ heaped' = heaped \cup (Top.ptr .. Top.ptr + Top.len - 1)
               /\ Len(stack') = Len(stack) - 1

\* C12: the depth budget of introsort_by starts at 2 * floor(log2(n)); every
\* partition step takes exactly one from it; the recursive call receives the
\* decremented value; it never increases; a range longer than THRESHOLD met
\* with budget 0 is handed whole to heap sort and never partitioned again; no
\* partition step runs with budget 0 and no chain of nested or iterated
\* partition steps is longer than 2 * floor(log2(n)).
C12_DepthLimit == []C12_State /\ [][C12_Step]_vars

\* under a strict weak order, after a range met with budget 0 has been
\* handed to heap sort, the second partition step of another chain runs
C12_Witness ==
    /\ fn = "introsort_by" /\ lt \in StrictWeakOrders /\ pc = "scan_first"
    /\ heaped # {} /\ Top.steps > 1 /\ Top.depth_limit = DepthBudget - 2

\* A bound on the steps introsort_loop takes on a range of len elements
\* (len >= 0), and on the steps left once the partition of such a range
\* has begun and its scans have met.
LoopCost(len) == 5 * len * len + 2

SplitCost(len) == 5 * (len * len - 2 * len + 2) + 7

\* the ranges [ptr, pivot) that the invocations below the innermost one go
\* on with when their recursive call has returned
RECURSIVE SuspendedCost(_)
SuspendedCost(i) ==
    IF i < 1 THEN 0
    ELSE LoopCost(stack[i].pivot - stack[i].ptr) + SuspendedCost(i - 1)

\* a natural number that every step of introsort_by makes smaller
Variant ==
    LET below == SuspendedCost(Len(stack) - 1)
        scan == 4 * (last - first + Top.len)
    IN  CASE pc = "call"        -> LoopCost(Len(input)) + 3
          [] pc = "loop"        -> below + LoopCost(Top.len) + 2
          [] pc = "scan_first"  -> below + SplitCost(Top.len) + scan + 5
          [] pc = "scan_last"   -> below + SplitCost(Top.len) + scan + 4
          [] pc = "check"       -> below + SplitCost(Top.len) + scan + 3
          [] pc = "partitioned" -> below + LoopCost(Top.last - Top.pivot)
                                         + LoopCost(Top.pivot - Top.ptr) + 5
          [] pc = "final"       -> 1
          [] OTHER              -> 0

\* what C13 says of every state
C13_State ==
    fn = "introsort_by" /\ lt \in StrictWeakOrders =>
        \* the call neither traps nor stops before it has returned: the
        \* finishing insertion sort and the heap sort of a range are one
        \* step each, every other position has a next step
        /\ pc \notin {"crashed", "astray"}
        /\ \/ Returned
           \/ pc = "final"
           \/ pc = "loop" /\ Top.len > THRESHOLD /\ Top.depth_limit = 0
           \/ ENABLED Next
        \* the boundary b of a partition step lies strictly inside the
        \* range, so both parts are non-empty and shorter than the range
        /\ pc = "partitioned" =>
               LET ptr == Top.ptr
                   len == Top.len
                   b == Top.pivot
               IN  /\ len > THRESHOLD /\ Top.last = ptr + len
                   /\ ptr < b /\ b < ptr + len
                   /\ ptr_distance(Top.last, b) > 0 /\ ptr_distance(Top.last, b) < len
                   /\ ptr_distance(b, ptr) > 0 /\ ptr_distance(b, ptr) < len
        \* no invocation is given a range of negative length
        /\ pc = "loop" => Top.len >= 0
        /\ Variant >= 0

\* what C13 says of every step
C13_Step ==
    fn = "introsort_by" /\ lt \in StrictWeakOrders => Variant' < Variant

\* C13: under a strict weak order introsort_by terminates: every partition
\* step on a range of len > THRESHOLD elements returns a boundary b with
\* ptr < b < ptr + len, so the range [b, last) of the recursive call and
\* the range [ptr, b) the loop goes on with are non-empty and shorter than
\* len; every step makes a natural number smaller, and no state before the
\* return is without a next step.
C13_Terminates == []C13_State /\ [][C13_Step]_vars

\* introsort_by has returned, under a strict weak order, from an input of
\* more than twice THRESHOLD elements on which the depth limit ran out
C13_Witness ==
    /\ Returned /\ fn = "introsort_by" /\ lt \in StrictWeakOrders
    /\ heapsorts > 0 /\ Len(input) > 2 * THRESHOLD

\* x is a median of x, y and z: one of the other two is not greater than
\* x and the other is not less
IsMedian(c, x, y, z) ==
    \/ ~Lt(c, x, y) /\ ~Lt(c, z, x)
    \/ ~Lt(c, x, z) /\ ~Lt(c, y, x)

\* the step from the loop of introsort_loop into partition chooses, among
\* the elements at the offsets i, len / 2 and len - 1 of the range, a median
\* of the three, and swaps it with the first element of the range
MedianOfThreeAt(i) ==
    fn = "introsort_by" /\ lt \in StrictWeakOrders
    /\ pc = "loop" /\ pc' = "scan_first" =>
        LET m == Mem(v, oob)
            ptr == Top.ptr
            len == Top.len
            offs == {i, len \div 2, len - 1}
        IN  \E o \in offs :
                /\ chosen' = deref(m, ptr + o)
                /\ \E p, q \in offs \ {o} :
                       /\ p # q \/ Cardinality(offs) < 3
                       /\ IsMedian(lt, chosen', deref(m, ptr + p), deref(m, ptr + q))
                /\ v' = ptr_swap(m, ptr, ptr + o).v
                /\ deref(Mem(v', oob'), ptr) = chosen'
                /\ first' = ptr + 1 /\ last' = ptr + len

\* C14, as claimed: in every partition step the pivot is the median of the
\* elements at the positions 0, len / 2 and len - 1 of the range, and is
\* swapped into the first position of the range.
C14_MedianOfFirstMiddleLast == [][MedianOfThreeAt(0)]_vars

\* C14, amended: in every partition step the pivot is the median, under the
\* comparator, of the elements at the positions 1, len / 2 and len - 1 of
\* the range, and is swapped into the first position of the range before
\* the rest is partitioned.
C14_MedianOfSecondMiddleLast == [][MedianOfThreeAt(1)]_vars

\* a partition step of a recursive call has just put its pivot first in a
\* range that does not begin the slice, and the next element differs from it
C14_Witness ==
    /\ fn = "introsort_by" /\ lt \in StrictWeakOrders
    /\ pc = "scan_first" /\ first = Top.ptr + 1 /\ Top.ptr > 0
    /\ v[Top.ptr + 1] = chosen /\ ~Equivalent(lt, v[Top.ptr + 2], chosen)

\* the step after a partition step is the one recursive call, on the range
\* [a, b) given as offsets from the boundary; the caller stays as it is
RecursesOn(a, b) ==
    /\ Len(stack') = Len(stack) + 1
    /\ SubSeq(stack', 1, Len(stack)) = stack
    /\ Top'.ptr = a /\ Top'.last = b /\ Top'.len = ptr_distance(b, a)
    /\ pc' = "loop"

\* the innermost invocation returns and its caller goes on with [a, b)
ContinuesOn(a, b) ==
    /\ Len(stack') = Len(stack) - 1
    /\ Top'.ptr = a /\ Top'.last = b /\ Top'.len = ptr_distance(b, a)
    /\ pc' = "loop"

\* C15, as claimed: after each partition step with boundary b on the range
\* [first, last), introsort_loop makes exactly one recursive call, on the
\* left part [first, b), and goes on with its own loop on the right part
\* [b, last).
C15_RecurseLeftLoopRight ==
    [][fn = "introsort_by" /\ pc' \notin {"crashed", "astray"} =>
          /\ pc = "partitioned" => RecursesOn(Top.ptr, Top.pivot)
          /\ Len(stack) >= 2 /\ Len(stack') < Len(stack) =>
                 LET caller == stack[Len(stack) - 1]
                 IN  ContinuesOn(caller.pivot, caller.last)]_vars

\* C15, amended: after each partition step with boundary b on the range
\* [first, last), introsort_loop makes exactly one recursive call, on the
\* right part [b, last), and when that call has returned goes on with its
\* own loop on the left part [first, b); the stack of invocations grows at
\* no other step, so it never recurses on both parts.
C15_RecurseRightLoopLeft ==
    [][fn = "introsort_by" /\ pc' \notin {"crashed", "astray"} =>
          /\ pc = "partitioned" => RecursesOn(Top.pivot, Top.last)
          /\ pc' = "partitioned" => pc = "check" /\ Len(stack') = Len(stack)
          /\ Len(stack) >= 1 /\ Len(stack') > Len(stack) => pc = "partitioned"
          /\ Len(stack) >= 2 /\ Len(stack') < Len(stack) =>
                 LET caller == stack[Len(stack) - 1]
                 IN  ContinuesOn(caller.ptr, caller.pivot)]_vars

\* a recursive call has returned and its caller, itself a recursive call,
\* goes on with a left part that is longer than THRESHOLD
C15_Witness ==
    /\ fn = "introsort_by" /\ lt \in StrictWeakOrders /\ pc = "loop"
    /\ Len(stack) >= 2 /\ Top.steps > stack[Len(stack) - 1].steps
    /\ Top.last = Top.pivot /\ Top.pivot > Top.ptr
    /\ Top.len > THRESHOLD

\* the position (from 1) of the element e in the sequence s
PositionOf(e, s) == CHOOSE i \in 1 .. Len(s) : s[i] = e

\* what C16 says of the state in which introsort_loop has returned for the
\* whole slice and the finishing insertion sort is about to start
C16_State ==
    fn = "introsort_by" /\ lt \in StrictWeakOrders /\ pc = "final" =>
        /\ stack = << >>
        /\ \A i, j \in 1 .. Len(v) :
               j - i >= THRESHOLD => ~Lt(lt, v[j], v[i])

\* what C16 says of the finishing insertion sort
C16_Step ==
    fn = "introsort_by" /\ lt \in StrictWeakOrders /\ pc = "final" =>
        /\ pc' = "done"
        /\ \A i \in 1 .. Len(v) :
               LET to == PositionOf(v[i], v')
               IN  to - i < THRESHOLD /\ i - to < THRESHOLD

\* C16: under a strict weak order, when introsort_loop has returned for the
\* whole slice and the one finishing insertion sort is about to start,
\* lt(v[j], v[i]) is false for all positions i < j with j - i >= THRESHOLD,
\* and the finishing insertion sort moves no element by THRESHOLD or more
\* positions.
C16_AlmostSorted == []C16_State /\ [][C16_Step]_vars

\* the finishing insertion sort is about to start on a slice of more than
\* twice THRESHOLD elements that is not yet sorted, part of which was heap
\* sorted and part of which was left in ranges of at most THRESHOLD elements
C16_Witness ==
    /\ fn = "introsort_by" /\ lt \in StrictWeakOrders /\ pc = "final"
    /\ Len(v) > 2 * THRESHOLD /\ heaped # {} /\ ~Sorted(v, lt)

====
